---- MODULE Spec2Model ----
(***************************************************************************)
(* Model of the linkman browser extension's synchronisation core:          *)
(*   utils.js       getSettings, buildHeaders, fetchWithRetry              *)
(*   background.js  performAutoSync (Mirror), startSync, stopSync and the  *)
(*                  runtime listeners                                      *)
(*   options.js     the Import (Push), Sync-to-native (Pull-Merge) and     *)
(*                  Save handlers                                          *)
(* Every await of the source is a position of the process that runs it;    *)
(* the code between two awaits is one atomic step.                         *)
(***************************************************************************)
EXTENDS Integers, Sequences, FiniteSets, TLC

\* ------------------------------------------------------------------ bounds
MaxPass == 2        \* performAutoSync invocations that may be unfinished at once
MaxRemote == 2      \* longest remote collection drawn by Init
MaxLocal == 2       \* most leaves in the initial local tree
MaxNodeId == 7      \* bookmark ids the local store hands out before creates block
MaxMsgs == 1        \* SYNC_SETTINGS_CHANGED messages in flight
MaxInitRetries == 3 \* largest retry budget drawn for a stand-alone fetchWithRetry
MaxHeaders == 2     \* most entries in the persisted extraHeaders

\* ------------------------------------------------------- program constants
DefaultRetries == 3
DefaultBackoff == 1000

\* ------------------------------------------------------------ value spaces
RemoteUrls == {"http://x", "http://y"}
LocalUrls == {"http://y", "http://z"}
Backends == {"", "http://backend"}
Statuses == {200, 201, 404, 429, 500, 503}

\* The remote title of a record; the record of http://y has an empty title.
TitleOf(url) == IF url = "http://x" THEN "X" ELSE IF url = "http://z" THEN "Z" ELSE ""

Record(url) == [url |-> url, title |-> TitleOf(url)]

RECURSIVE SeqsUpTo(_, _)
SeqsUpTo(S, n) ==
  IF n = 0 THEN {<<>>}
  ELSE LET shorter == SeqsUpTo(S, n - 1)
       IN shorter \cup {Append(s, e) : s \in {t \in shorter : Len(t) = n - 1}, e \in S}

\* ------------------------------------------------------------- fetchWithRetry
\* What one fetch(url, options) settles with: a response, or a rejection
\* (DNS/connection failure).  res.ok is true exactly for 200..299.
Response(status) ==
  [kind |-> "response", status |-> status, ok |-> (status >= 200 /\ status < 300)]
Rejected == [kind |-> "reject", status |-> 0, ok |-> FALSE]
Outcomes == {Response(s) : s \in Statuses} \cup {Rejected}
NoOutcome == [kind |-> "none", status |-> 0, ok |-> FALSE]

\* The error the try block throws for an outcome that is not an ok response.
IsClientError(status) == status >= 400 /\ status < 500 /\ status # 429

ErrorOf(o) ==
  IF o.kind = "reject" THEN [msg |-> "TypeError", status |-> 0]
  ELSE IF IsClientError(o.status) THEN [msg |-> "Client error", status |-> o.status]
  ELSE [msg |-> "Server returned", status |-> o.status]
NoError == [msg |-> "", status |-> 0]

\* The catch block retrying once more than the budget allows.
RetriesOnceMore(error, retries) == retries >= 0

\* catch (error): the condition under which the catch block waits and recurses.
ShouldRetry(error, retries) == retries > 0

\* A fetchWithRetry call in progress.  state: "pending" (awaiting fetch),
\* "waiting" (awaiting the backoff timer), "returned", "threw", "none".
\* attempts, waits, seen and args are history: the fetches issued, the waits
\* taken, what each fetch settled with, and the arguments of the outermost call.
NewCall(retries, backoff) ==
  [state |-> "pending", retries |-> retries, backoff |-> backoff,
   error |-> NoError, res |-> NoOutcome, attempts |-> 0, waits |-> <<>>,
   seen |-> <<>>, args |-> [retries |-> retries, backoff |-> backoff]]
NoCall ==
  [state |-> "none", retries |-> 0, backoff |-> 0,
   error |-> NoError, res |-> NoOutcome, attempts |-> 0, waits |-> <<>>,
   seen |-> <<>>, args |-> [retries |-> 0, backoff |-> 0]]

\* await fetch(url, options) settles with outcome o.
FetchSettled(c, o) ==
  LET d == [c EXCEPT !.attempts = @ + 1, !.seen = Append(@, o)]
  IN IF o.ok
     THEN [d EXCEPT !.state = "returned", !.res = o]
     ELSE IF ShouldRetry(ErrorOf(o), c.retries)
          THEN [d EXCEPT !.state = "waiting", !.error = ErrorOf(o)]
          ELSE [d EXCEPT !.state = "threw", !.error = ErrorOf(o)]

\* The backoff doubled before the wait instead of after it.
BackoffDoubledFirst(c) ==
  [c EXCEPT !.state = "pending", !.retries = @ - 1, !.backoff = @ * 2,
            !.error = NoError, !.waits = Append(@, c.backoff * 2)]

\* The recursive call made with the backoff it was given, not doubled.
BackoffConstant(c) ==
  [c EXCEPT !.state = "pending", !.retries = @ - 1,
            !.error = NoError, !.waits = Append(@, c.backoff)]

\* The backoff timer fires: return fetchWithRetry(url, options, retries - 1, backoff * 2).
BackoffElapsed(c) ==
  [c EXCEPT !.state = "pending", !.retries = @ - 1, !.backoff = @ * 2,
            !.error = NoError, !.waits = Append(@, c.backoff)]

CallSettled(c) == c.state \in {"returned", "threw"}

\* The whole call, attempt after attempt, against the outcomes os of its
\* successive fetches (as many of them as the call comes to use).
RECURSIVE fetchWithRetry(_, _)
fetchWithRetry(c, os) ==
  IF CallSettled(c) \/ os = <<>> THEN c
  ELSE LET d == FetchSettled(c, Head(os))
       IN IF d.state = "waiting" THEN fetchWithRetry(BackoffElapsed(d), Tail(os))
          ELSE d

\* The outcome sequences that take a call with the default budget to its end.
RECURSIVE Runs(_, _)
Runs(S, n) ==
  IF n = 0 THEN {<<>>}
  ELSE {<<o>> : o \in {x \in S : x.ok}}
       \cup {<<o>> \o r : o \in {x \in S : ~x.ok}, r \in Runs(S, n - 1)}

\* What a caller keeps of a settled call: how it ended, with what.
Ended(c) == [NoCall EXCEPT !.state = c.state, !.error = c.error, !.res = c.res]

\* The outcomes drawn for GET /bookmarks/sync and for POST /bookmarks.
GetOutcomes == {Response(200), Response(404), Response(503), Rejected}
PostOutcomes == {Response(201), Response(500), Rejected}

\* The ways a call with the default arguments can end against outcomes from S.
DefaultCallEnds(S) ==
  {Ended(fetchWithRetry(NewCall(DefaultRetries, DefaultBackoff), os)) :
     os \in Runs(S, DefaultRetries + 1)}
GetEnds == DefaultCallEnds(GetOutcomes)
PostEnds == DefaultCallEnds(PostOutcomes)

\* ------------------------------------------------------------ local store
\* chrome.bookmarks: a tree of nodes keyed by id.  A leaf has a url and no
\* children; a folder has children and no url.  Node 0 is the root, 1 the
\* bookmarks bar, 2 "Other bookmarks" (where create() without a parentId
\* appends), 3 a folder inside the bar.
RootId == 0
BarId == 1
OtherId == 2
SubId == 3
FirstLeafId == 4

Folder(kids) == [url |-> "", title |-> "", folder |-> TRUE, children |-> kids]
Leaf(url, title) == [url |-> url, title |-> title, folder |-> FALSE, children |-> <<>>]

\* The initial tree holding the leaves ls (a sequence of urls): the first in
\* the inner folder, the second in the bar after that folder, the rest in
\* "Other bookmarks".
InitTree(ls) ==
  [id \in 0..(FirstLeafId + Len(ls) - 1) |->
     IF id = RootId THEN Folder(<<BarId, OtherId>>)
     ELSE IF id = BarId
          THEN Folder(<<SubId>> \o (IF Len(ls) >= 2 THEN <<FirstLeafId + 1>> ELSE <<>>))
     ELSE IF id = OtherId
          THEN Folder([k \in 1..(IF Len(ls) > 2 THEN Len(ls) - 2 ELSE 0) |-> FirstLeafId + 1 + k])
     ELSE IF id = SubId
          THEN Folder(IF Len(ls) >= 1 THEN <<FirstLeafId>> ELSE <<>>)
     ELSE Leaf(ls[id - FirstLeafId + 1], "local")]

\* The traversal taking a folder's later siblings before its children.
RECURSIVE traverseSiblingsFirst(_, _)
traverseSiblingsFirst(t, ids) ==
  IF ids = <<>> THEN <<>>
  ELSE LET id == Head(ids)
           node == t[id]
       IN (IF node.url # ""
           THEN <<[id |-> id, url |-> node.url, title |-> node.title]>>
           ELSE <<>>)
          \o traverseSiblingsFirst(t, Tail(ids))
          \o (IF node.folder THEN traverseSiblingsFirst(t, node.children) ELSE <<>>)

\* traverseNodes(nodes): depth-first, pre-order; a node with a url is pushed,
\* a node with children is descended into.
RECURSIVE traverseNodes(_, _)
traverseNodes(t, ids) ==
  IF ids = <<>> THEN <<>>
  ELSE LET id == Head(ids)
           node == t[id]
       IN (IF node.url # ""
           THEN <<[id |-> id, url |-> node.url, title |-> node.title]>>
           ELSE <<>>)
          \o (IF node.folder THEN traverseNodes(t, node.children) ELSE <<>>)
          \o traverseNodes(t, Tail(ids))

\* chrome.bookmarks.getTree() resolves with the root; the handlers flatten it.
Flatten(t) == traverseNodes(t, <<RootId>>)

\* The url sets left empty: nothing added to nativeUrls, nothing mapped into backendUrls.
UrlsForgotten(s) == {}

\* nativeUrls (line 40) and backendUrls (line 60): the urls of a sequence of nodes or records.
UrlsOf(s) == {s[k].url : k \in 1..Len(s)}
LeafUrls(t) == UrlsOf(Flatten(t))

\* chrome.bookmarks.create rejects a url that does not parse ("Invalid URL.").
ValidUrl(url) == url # "not a url"

\* chrome.bookmarks.create({title, url}): a new leaf, appended to "Other bookmarks".
CreateNode(t, id, title, url) ==
  [n \in DOMAIN t \cup {id} |->
     IF n = id THEN Leaf(url, title)
     ELSE IF n = OtherId THEN [t[n] EXCEPT !.children = Append(@, id)]
     ELSE t[n]]

\* chrome.bookmarks.remove(id): the node leaves the tree and its parent's children.
RemoveNode(t, id) ==
  [n \in DOMAIN t \ {id} |->
     [t[n] EXCEPT !.children = SelectSeq(@, LAMBDA c : c # id)]]

\* ------------------------------------------------------------------- Mirror
\* The guard of line 7 without its autoSync test.
MirrorTrustsCaller(s) == s.backendUrl = ""

\* The guard of line 7 without its backendUrl test.
MirrorIgnoresBackend(s) == ~s.autoSync

\* performAutoSync, line 7: the conditions under which the callback returns
\* before doing anything (chrome.bookmarks is present: the permission is granted).
MirrorReturnsEarly(s) == ~s.autoSync \/ s.backendUrl = ""

\* title: bm.title || bm.url
TitleOrUrl(bm) == IF bm.title # "" THEN bm.title ELSE bm.url

\* The create loop without its membership test.
CreatesEveryRecord(bm, nativeUrls) == TRUE

\* The delete loop never deleting.
RemovesNothing(node, backendUrls) == FALSE

\* The create loop creating nothing.
CreatesNothing(bm, nativeUrls) == FALSE

\* for (let bm of backendBookmarks) if (!nativeUrls.has(bm.url)) create(...)
NeedsCreate(bm, nativeUrls) == bm.url \notin nativeUrls

\* for (let node of nativeBookmarks) if (!backendUrls.has(node.url)) remove(node.id)
NeedsRemove(node, backendUrls) == node.url \notin backendUrls

\* The index of the first record at or after i that the create loop creates; 0 if none.
NextCreate(backendBookmarks, nativeUrls, i) ==
  LET todo == {k \in i..Len(backendBookmarks) : NeedsCreate(backendBookmarks[k], nativeUrls)}
  IN IF todo = {} THEN 0 ELSE CHOOSE k \in todo : \A j \in todo : k <= j

\* The index of the first flattened node at or after i that the delete loop removes; 0 if none.
NextRemove(nativeBookmarks, backendUrls, i) ==
  LET todo == {k \in i..Len(nativeBookmarks) : NeedsRemove(nativeBookmarks[k], backendUrls)}
  IN IF todo = {} THEN 0 ELSE CHOOSE k \in todo : \A j \in todo : k <= j

\* A performAutoSync invocation.  pc: "idle" (slot never used), "get"
\* (storage.sync.get issued), "fetch", "getTree", "create" and "remove"
\* (awaiting the create of backendBookmarks[i] / the remove of
\* nativeBookmarks[i]), and the ends "skipped" (line 7), "nobody" (line 29),
\* "done" (line 67), "failed" (line 69).  created, removed, disturbed and
\* stopped are history: the leaves created, the ids removed, whether another
\* run mutated the store after this pass read the tree, and whether stopSync
\* ran while this pass was under way.
IdlePass ==
  [pc |-> "idle", settings |-> [backendUrl |-> "", autoSync |-> FALSE], call |-> NoCall,
   backendBookmarks |-> <<>>, nativeBookmarks |-> <<>>, i |-> 0,
   created |-> <<>>, removed |-> <<>>, disturbed |-> FALSE, stopped |-> FALSE]

PassEnds == {"skipped", "nobody", "done", "failed"}
PassFree(ps) == ps.pc \in PassEnds \cup {"idle"}
\* Between the settings read and the last local create/remove.
PassInFlight(ps) == ps.pc \in {"fetch", "getTree", "create", "remove"}

\* Where the pass stands after the create awaited at index i (or, with i = 0,
\* after getTree): the next create, else the first remove, else the end.
AfterCreate(ps, i) ==
  LET c == NextCreate(ps.backendBookmarks, UrlsOf(ps.nativeBookmarks), i + 1)
      r == NextRemove(ps.nativeBookmarks, UrlsOf(ps.backendBookmarks), 1)
  IN IF c # 0 THEN [ps EXCEPT !.pc = "create", !.i = c]
     ELSE IF r # 0 THEN [ps EXCEPT !.pc = "remove", !.i = r]
     ELSE [ps EXCEPT !.pc = "done", !.i = 0]

\* The remove loop handing back to the create loop.
AfterRemoveCreatesAgain(ps, i) ==
  LET c == NextCreate(ps.backendBookmarks, UrlsOf(ps.nativeBookmarks), 1)
      r == NextRemove(ps.nativeBookmarks, UrlsOf(ps.backendBookmarks), i + 1)
  IN IF c # 0 THEN [ps EXCEPT !.pc = "create", !.i = c]
     ELSE IF r # 0 THEN [ps EXCEPT !.pc = "remove", !.i = r]
     ELSE [ps EXCEPT !.pc = "done", !.i = 0]

\* Where the pass stands after the remove awaited at index i.
AfterRemove(ps, i) ==
  LET r == NextRemove(ps.nativeBookmarks, UrlsOf(ps.backendBookmarks), i + 1)
  IN IF r # 0 THEN [ps EXCEPT !.pc = "remove", !.i = r]
     ELSE [ps EXCEPT !.pc = "done", !.i = 0]

\* What res.json() gives for the body of an ok response of GET /bookmarks/sync:
\* the collection, JSON null, or a body that is not JSON (json() rejects).
Bodies == {"array", "null", "invalid"}

\* A fetch failure taken for an empty collection instead of ending the pass.
FetchedFailOpen(ps, c, body, collection) ==
  IF c.state = "threw" THEN [ps EXCEPT !.call = c, !.pc = "getTree", !.backendBookmarks = <<>>]
  ELSE IF body = "invalid" THEN [ps EXCEPT !.call = c, !.pc = "failed"]
  ELSE IF body = "null" THEN [ps EXCEPT !.call = c, !.pc = "nobody"]
  ELSE [ps EXCEPT !.call = c, !.pc = "getTree", !.backendBookmarks = collection]

\* Lines 24-31: where the pass stands once fetchWithRetry has settled as c and
\* res.json() has read body: a throw lands in the catch of line 68.
Fetched(ps, c, body, collection) ==
  IF c.state = "threw" \/ ~c.res.ok \/ body = "invalid"
  THEN [ps EXCEPT !.call = c, !.pc = "failed"]
  ELSE IF body = "null" THEN [ps EXCEPT !.call = c, !.pc = "nobody"]
  ELSE [ps EXCEPT !.call = c, !.pc = "getTree", !.backendBookmarks = collection]

\* ------------------------------------------------------------- getSettings
\* utils.js lines 2-4: the keys getSettings asks for (autoSync is not one; the
\* api key and extra headers only shape the request headers).
getSettings(s) == [backendUrl |-> s.backendUrl]

\* ------------------------------------------------------------ buildHeaders
\* The persisted apiKey ("" when unset) and the keys and values of the
\* persisted extraHeaders entries.  The options page saves no entry with an
\* empty key; buildHeaders guards against one all the same.
ApiKeys == {"", "k"}
HeaderKeys == {"", "X-Tenant", "Authorization", "Accept"}
HeaderValues == {"a", "b"}
HeaderEntries == {[key |-> k, value |-> v] : k \in HeaderKeys, v \in HeaderValues}

\* `Bearer ${settings.apiKey || ''}`
Bearer(apiKey) == "Bearer " \o apiKey

\* headers[h.key] = h.value on a headers object.
SetHeader(h, key, value) ==
  [x \in DOMAIN h \cup {key} |-> IF x = key THEN value ELSE h[x]]

\* settings.extraHeaders.forEach(h => { if (h.key) headers[h.key] = h.value })
RECURSIVE ApplyExtra(_, _)
ApplyExtra(h, extraHeaders) ==
  IF extraHeaders = <<>> THEN h
  ELSE ApplyExtra(IF Head(extraHeaders).key # ""
                  THEN SetHeader(h, Head(extraHeaders).key, Head(extraHeaders).value)
                  ELSE h,
                  Tail(extraHeaders))

\* buildHeaders leaving the extra headers out.
BuildHeadersWithoutExtras(s, isJson) ==
  IF isJson
  THEN ("Authorization" :> Bearer(s.apiKey)) @@ ("Content-Type" :> "application/json")
  ELSE ("Authorization" :> Bearer(s.apiKey)) @@ ("Accept" :> "application/json")

\* buildHeaders(settings, isJson = false), utils.js lines 7-24.
buildHeaders(s, isJson) ==
  ApplyExtra(IF isJson
             THEN ("Authorization" :> Bearer(s.apiKey)) @@ ("Content-Type" :> "application/json")
             ELSE ("Authorization" :> Bearer(s.apiKey)) @@ ("Accept" :> "application/json"),
             s.extraHeaders)

\* The headers performAutoSync builds itself, background.js lines 10-21.
MirrorHeaders(s) ==
  ApplyExtra(("Authorization" :> Bearer(s.apiKey)) @@ ("Accept" :> "application/json"),
             s.extraHeaders)

\* The headers the results page builds itself for its search, results.js lines 84-95.
SearchHeaders(s) ==
  ApplyExtra(("Authorization" :> Bearer(s.apiKey)) @@ ("Accept" :> "application/json"),
             s.extraHeaders)

\* A request as handed to fetchWithRetry: the site that built it, its method,
\* whether it sends a JSON body, and its headers.
NoRequest ==
  [apiKey |-> "", extraHeaders |-> <<>>, site |-> "none", method |-> "",
   body |-> FALSE, headers |-> <<>>]
Built(r, site, method, body, headers) ==
  [r EXCEPT !.site = site, !.method = method, !.body = body, !.headers = headers]

\* --------------------------------------------------------------- Pull-Merge
\* The create loop of Pull-Merge without its title fallback.
PullTitleOnly(bm) == bm.title

\* options.js line 249: title: bm.title || bm.url
PullTitle(bm) == IF bm.title # "" THEN bm.title ELSE bm.url

\* The create loop of Pull-Merge without its membership test.
PullCreatesEveryRecord(bm, nativeUrls) == TRUE

\* options.js line 247: if (!nativeUrls.has(bm.url))
PullNeedsCreate(bm, nativeUrls) == bm.url \notin nativeUrls

\* The index of the first record at or after i that Pull-Merge creates; 0 if none.
PullNextCreate(backendBookmarks, nativeUrls, i) ==
  LET todo == {k \in i..Len(backendBookmarks) : PullNeedsCreate(backendBookmarks[k], nativeUrls)}
  IN IF todo = {} THEN 0 ELSE CHOOSE k \in todo : \A j \in todo : k <= j

\* A run of the syncToNativeBtn click handler.  pc: "idle", "get" (await
\* getSettings), "fetch", "getTree", "create" (awaiting the create of
\* backendBookmarks[i]), and the ends "nourl" (line 206), "nobody" and "empty"
\* (line 225: JSON null, and an empty collection), "done" (line 256), "failed"
\* (line 258).  created, startTree and after are history: the leaves created,
\* the tree when the run began, and whether an earlier run had been answered
\* with the collection and completed when it began.
IdlePull ==
  [pc |-> "idle", settings |-> [backendUrl |-> ""], call |-> NoCall,
   backendBookmarks |-> <<>>, nativeUrls |-> {}, i |-> 0, addCount |-> 0,
   created |-> <<>>, startTree |-> <<>>, after |-> FALSE]

PullEnds == {"nourl", "nobody", "empty", "done", "failed"}
PullCompleted(pl) == pl.pc \in {"empty", "done"}

\* Lines 218-230: where the run stands once fetchWithRetry has settled as c
\* and res.json() has read body.
PullFetched(pl, c, body, collection) ==
  IF c.state = "threw" \/ ~c.res.ok \/ body = "invalid"
  THEN [pl EXCEPT !.call = c, !.pc = "failed"]
  ELSE IF body = "null" THEN [pl EXCEPT !.call = c, !.pc = "nobody"]
  ELSE IF Len(collection) = 0 THEN [pl EXCEPT !.call = c, !.pc = "empty"]
  ELSE [pl EXCEPT !.call = c, !.pc = "getTree", !.backendBookmarks = collection]

\* Where the run stands after the create awaited at index i (after getTree, i = 0).
PullAfterCreate(pl, i) ==
  LET c == PullNextCreate(pl.backendBookmarks, pl.nativeUrls, i + 1)
  IN IF c # 0 THEN [pl EXCEPT !.pc = "create", !.i = c]
     ELSE [pl EXCEPT !.pc = "done", !.i = 0]

\* --------------------------------------------------------------------- Push
\* options.js line 167
currentTags == <<"imported">>

\* A run of the importBookmarksBtn click handler.  pc: "idle", "get" (await
\* getSettings), "getTree", "post" (awaiting fetchWithRetry for
\* flatBookmarks[i]), and the ends "nourl" (line 133), "nonative" (line 162),
\* "done" (line 190).  posts is history: the upserts issued and how each ended.
IdlePush ==
  [pc |-> "idle", settings |-> [backendUrl |-> ""],
   flatBookmarks |-> <<>>, i |-> 0, successCount |-> 0, failCount |-> 0, posts |-> <<>>]

PushEnds == {"nourl", "nonative", "done"}

\* Lines 148-163: flatBookmarks, and the return when there are none.
PushFlattened(ph, t) ==
  LET flat == [k \in 1..Len(Flatten(t)) |->
                 [title |-> Flatten(t)[k].title, url |-> Flatten(t)[k].url]]
  IN IF Len(flat) = 0 THEN [ph EXCEPT !.pc = "nonative"]
     ELSE [ph EXCEPT !.pc = "post", !.flatBookmarks = flat, !.i = 1]

\* The import loop leaving at the first upsert that fails.
PushStopsOnFailure(ph, c) ==
  IF c.state = "returned" /\ c.res.ok
  THEN [ph EXCEPT !.successCount = @ + 1, !.i = @ + 1,
                  !.pc = IF ph.i = Len(ph.flatBookmarks) THEN "done" ELSE "post"]
  ELSE [ph EXCEPT !.failCount = @ + 1, !.pc = "done"]

\* Lines 169-190: the count taken when the upsert of flatBookmarks[i] has
\* settled as c, and the move to the next leaf or to the end.
PushCounted(ph, c) ==
  LET counted == IF c.state = "returned" /\ c.res.ok
                 THEN [ph EXCEPT !.successCount = @ + 1]
                 ELSE [ph EXCEPT !.failCount = @ + 1]
  IN IF ph.i = Len(ph.flatBookmarks)
     THEN [counted EXCEPT !.pc = "done"]
     ELSE [counted EXCEPT !.i = @ + 1]

VARIABLES
  fw,            \* a stand-alone fetchWithRetry call (SpecFetch)
  req,           \* the request last built, with the settings snapshot it was built from
  settings,      \* chrome.storage.sync: the persisted settings
  remote,        \* the remote collection GET /bookmarks/sync answers with
  tree,          \* the local bookmark tree
  nextId,        \* the id the local store gives the next created node
  syncIntervalId,\* background.js line 3 (0 is null)
  timers,        \* the interval ids setInterval has registered and not cleared
  msgs,          \* SYNC_SETTINGS_CHANGED messages sent and not yet delivered
  boot,          \* the storage.sync.get calls of onInstalled / onStartup awaiting their callback
  pass,          \* the performAutoSync invocations
  pull,          \* the run of the Sync-to-native (Pull-Merge) handler
  push           \* the run of the Import (Push) handler

vars == <<fw, req, settings, remote, tree, nextId, syncIntervalId, timers, msgs, boot, pass, pull, push>>

sysVars == <<req, settings, remote, tree, nextId, syncIntervalId, timers, msgs, boot, pass, pull, push>>

sysVarsButReq == <<settings, remote, tree, nextId, syncIntervalId, timers, msgs, boot, pass, pull, push>>

Passes == 1..MaxPass
NoSettings == [backendUrl |-> "", autoSync |-> FALSE]

\* The extension as installed: nothing configured, nothing scheduled.
Quiet ==
  /\ settings = NoSettings
  /\ remote = <<>>
  /\ tree = InitTree(<<>>)
  /\ nextId = FirstLeafId
  /\ syncIntervalId = 0
  /\ timers = {}
  /\ msgs = <<>>
  /\ boot = {}
  /\ req = NoRequest
  /\ pass = [p \in Passes |-> IdlePass]
  /\ pull = IdlePull
  /\ push = IdlePush


\* ----------------------------------------------------- stand-alone transport
InitFetch ==
  /\ Quiet
  /\ fw \in {NewCall(r, b) : r \in 0..MaxInitRetries, b \in {DefaultBackoff, 250}}

FwFetch == /\ fw.state = "pending"
           /\ \E o \in Outcomes : fw' = FetchSettled(fw, o)
           /\ UNCHANGED sysVars

FwBackoff == /\ fw.state = "waiting"
             /\ fw' = BackoffElapsed(fw)
             /\ UNCHANGED sysVars

NextFetch == FwFetch \/ FwBackoff

SpecFetch == InitFetch /\ [][NextFetch]_vars

\* Every fetch settles and every backoff timer fires.
SpecFetchLive == SpecFetch /\ WF_vars(NextFetch)

\* ------------------------------------------------------- request building
\* Every settings snapshot within the bounds; each action is one call site of
\* fetchWithRetry building its request from the snapshot.
InitHeaders ==
  /\ fw = NoCall
  /\ settings = NoSettings
  /\ remote = <<>>
  /\ tree = InitTree(<<>>)
  /\ nextId = FirstLeafId
  /\ syncIntervalId = 0
  /\ timers = {}
  /\ msgs = <<>>
  /\ boot = {}
  /\ pass = [p \in Passes |-> IdlePass]
  /\ pull = IdlePull
  /\ push = IdlePush
  /\ \E k \in ApiKeys, x \in SeqsUpTo(HeaderEntries, MaxHeaders) :
       req = [NoRequest EXCEPT !.apiKey = k, !.extraHeaders = x]

\* background.js line 24: GET /bookmarks/sync with the headers of lines 10-21.
MirrorRequest ==
  /\ req' = Built(req, "background.sync", "GET", FALSE, MirrorHeaders(req))
  /\ UNCHANGED <<fw, sysVarsButReq>>

\* results.js line 97: GET /bookmarks with the headers of lines 84-95.
SearchRequest ==
  /\ req' = Built(req, "results.search", "GET", FALSE, SearchHeaders(req))
  /\ UNCHANGED <<fw, sysVarsButReq>>

\* popup.js lines 119-121: GET /bookmarks?q=.
CheckRequest ==
  /\ req' = Built(req, "popup.check", "GET", FALSE, buildHeaders(req, FALSE))
  /\ UNCHANGED <<fw, sysVarsButReq>>

\* popup.js lines 190-198: POST /bookmarks with a JSON body.
SaveLinkRequest ==
  /\ req' = Built(req, "popup.save", "POST", TRUE, buildHeaders(req, TRUE))
  /\ UNCHANGED <<fw, sysVarsButReq>>

\* popup.js lines 235-238: DELETE /bookmarks?url=.
DeleteLinkRequest ==
  /\ req' = Built(req, "popup.delete", "DELETE", FALSE, buildHeaders(req, FALSE))
  /\ UNCHANGED <<fw, sysVarsButReq>>

\* results.js lines 137-140: POST /admin/bookmarks/{id}/reprocess, no body.
ReprocessRequest ==
  /\ req' = Built(req, "results.reprocess", "POST", FALSE, buildHeaders(req, FALSE))
  /\ UNCHANGED <<fw, sysVarsButReq>>

\* results.js lines 165-168: DELETE /bookmarks?url=.
DeleteResultRequest ==
  /\ req' = Built(req, "results.delete", "DELETE", FALSE, buildHeaders(req, FALSE))
  /\ UNCHANGED <<fw, sysVarsButReq>>

\* options.js lines 171-179: POST /bookmarks with a JSON body.
ImportRequest ==
  /\ req' = Built(req, "options.import", "POST", TRUE, buildHeaders(req, TRUE))
  /\ UNCHANGED <<fw, sysVarsButReq>>

\* options.js lines 218-220: GET /bookmarks/sync.
PullRequest ==
  /\ req' = Built(req, "options.pull", "GET", FALSE, buildHeaders(req, FALSE))
  /\ UNCHANGED <<fw, sysVarsButReq>>

NextHeaders ==
  \/ MirrorRequest
  \/ SearchRequest
  \/ CheckRequest
  \/ SaveLinkRequest
  \/ DeleteLinkRequest
  \/ ReprocessRequest
  \/ DeleteResultRequest
  \/ ImportRequest
  \/ PullRequest

SpecHeaders == InitHeaders /\ [][NextHeaders]_vars

\* --------------------------------------------------------------- scheduler
\* setInterval hands out an id no live interval and no stored handle carries.
FreshTimer(live) == CHOOSE n \in 1..(Cardinality(live) + 1) : n \notin live /\ \A m \in 1..(n - 1) : m \in live

\* performAutoSync(): the call itself only issues storage.sync.get; the rest
\* runs in the callback.  The invocation takes the lowest unused slot.
CanInvoke == \E p \in Passes : PassFree(pass[p])
InvokeSlot == CHOOSE p \in Passes : PassFree(pass[p]) /\ \A q \in Passes : PassFree(pass[q]) => p <= q
Invoked == [pass EXCEPT ![InvokeSlot] = [IdlePass EXCEPT !.pc = "get"]]

\* startSync registering the new interval without clearing the old one.
StartLeaksTimer ==
  /\ CanInvoke
  /\ syncIntervalId' = FreshTimer(timers \cup {syncIntervalId})
  /\ timers' = timers \cup {FreshTimer(timers \cup {syncIntervalId})}
  /\ pass' = Invoked

\* startSync without its immediate performAutoSync() call.
StartWaitsForTick ==
  /\ CanInvoke
  /\ LET cleared == IF syncIntervalId # 0 THEN timers \ {syncIntervalId} ELSE timers
     IN /\ syncIntervalId' = FreshTimer(timers \cup {syncIntervalId})
        /\ timers' = cleared \cup {FreshTimer(timers \cup {syncIntervalId})}
  /\ pass' = pass

\* startSync(), lines 74-79.  The id setInterval returns is new: the handle
\* held until now is never handed out again by the call that replaces it.
startSync ==
  /\ CanInvoke
  /\ LET cleared == IF syncIntervalId # 0 THEN timers \ {syncIntervalId} ELSE timers
     IN /\ syncIntervalId' = FreshTimer(timers \cup {syncIntervalId})
        /\ timers' = cleared \cup {FreshTimer(timers \cup {syncIntervalId})}
  /\ pass' = Invoked

\* History: the passes under way when stopSync runs.
MarkStopped(ps) ==
  [q \in Passes |-> IF PassFree(ps[q]) THEN ps[q] ELSE [ps[q] EXCEPT !.stopped = TRUE]]

\* stopSync dropping the handle without clearing the interval.
StopForgetsTimer ==
  /\ timers' = timers
  /\ syncIntervalId' = 0
  /\ pass' = MarkStopped(pass)

\* stopSync also abandoning the passes under way.
StopAbortsPasses ==
  /\ timers' = IF syncIntervalId # 0 THEN timers \ {syncIntervalId} ELSE timers
  /\ syncIntervalId' = 0
  /\ pass' = [q \in Passes |->
               IF PassFree(pass[q]) THEN pass[q]
               ELSE [pass[q] EXCEPT !.stopped = TRUE, !.pc = "failed"]]

\* stopSync(), lines 81-84.
stopSync ==
  /\ timers' = IF syncIntervalId # 0 THEN timers \ {syncIntervalId} ELSE timers
  /\ syncIntervalId' = 0
  /\ pass' = MarkStopped(pass)

\* The interval's callback dropping the tick while a pass is under way.
TickCoalesced ==
  /\ timers # {}
  /\ \A p \in Passes : PassFree(pass[p])
  /\ CanInvoke
  /\ pass' = Invoked
  /\ UNCHANGED <<fw, req, boot, settings, remote, tree, nextId, syncIntervalId, timers, msgs, pull, push>>

\* A registered interval fires: performAutoSync().
Tick ==
  /\ timers # {}
  /\ CanInvoke
  /\ pass' = Invoked
  /\ UNCHANGED <<fw, req, boot, settings, remote, tree, nextId, syncIntervalId, timers, msgs, pull, push>>

\* The background script has just been loaded: it has run nothing yet.
JustLoaded ==
  /\ syncIntervalId = 0
  /\ timers = {}
  /\ \A p \in Passes : pass[p].pc = "idle"

\* A storage.sync.get(['autoSync']) a lifecycle listener has issued: read is
\* <<>> until the store has served it, then <<v>> with the autoSync it read;
\* the callback runs later, with that value.
Issued(ev) == [ev |-> ev, read |-> <<>>]
Pending(ev) == {b \in boot : b.ev = ev}

\* onInstalled listener, lines 86-88: issues storage.sync.get(['autoSync']).
onInstalled ==
  /\ JustLoaded
  /\ Pending("installed") = {}
  /\ boot' = boot \cup {Issued("installed")}
  /\ UNCHANGED <<fw, req, settings, remote, tree, nextId, syncIntervalId, timers, msgs, pass, pull, push>>

\* onStartup listener, lines 95-96: issues storage.sync.get(['autoSync']).
onStartup ==
  /\ JustLoaded
  /\ Pending("startup") = {}
  /\ boot' = boot \cup {Issued("startup")}
  /\ UNCHANGED <<fw, req, settings, remote, tree, nextId, syncIntervalId, timers, msgs, pass, pull, push>>

\* The store serves the read of a lifecycle listener: the value is the
\* autoSync persisted at that moment.  The callback is dispatched later, and
\* nothing orders it against the delivery of a message sent in between.
LifecycleRead(ev) ==
  /\ \E b \in Pending(ev) :
       /\ b.read = <<>>
       /\ boot' = (boot \ {b}) \cup {[b EXCEPT !.read = <<settings.autoSync>>]}
  /\ UNCHANGED <<fw, req, settings, remote, tree, nextId, syncIntervalId, timers, msgs, pass, pull, push>>

InstalledRead == LifecycleRead("installed")
StartupRead == LifecycleRead("startup")

\* The listeners starting whatever the persisted autoSync says.
LifecycleAlwaysStarts(ev) ==
  /\ \E b \in Pending(ev) :
       /\ b.read # <<>>
       /\ boot' = boot \ {b}
       /\ startSync
  /\ UNCHANGED <<fw, req, settings, remote, tree, nextId, msgs, pull, push>>

\* The storage.sync.get callback of a lifecycle listener, lines 88-92 and
\* 96-100: if (settings.autoSync) startSync(), on the value the read returned.
LifecycleCallback(ev) ==
  /\ \E b \in Pending(ev) :
       /\ b.read # <<>>
       /\ boot' = boot \ {b}
       /\ IF b.read[1] THEN startSync ELSE UNCHANGED <<syncIntervalId, timers, pass>>
  /\ UNCHANGED <<fw, req, settings, remote, tree, nextId, msgs, pull, push>>

InstalledCallback == LifecycleCallback("installed")
StartupCallback == LifecycleCallback("startup")

\* onMessage listener, lines 103-111.
DeliverMessage ==
  /\ msgs # <<>>
  /\ IF Head(msgs) THEN startSync ELSE stopSync
  /\ msgs' = Tail(msgs)
  /\ UNCHANGED <<fw, req, boot, settings, remote, tree, nextId, pull, push>>

\* ------------------------------------------------------- options: settings
\* saveBtn click, options.js lines 268-291: persist, then notify the background.
Save(backendUrl, autoSync) ==
  /\ Len(msgs) < MaxMsgs
  /\ settings' = [backendUrl |-> backendUrl, autoSync |-> autoSync]
  /\ msgs' = Append(msgs, autoSync)
  /\ UNCHANGED <<fw, req, boot, remote, tree, nextId, syncIntervalId, timers, pass, pull, push>>

SaveSettings == \E b \in Backends, a \in BOOLEAN : Save(b, a)

\* autoSyncCheckbox click confirmed, options.js lines 57-91: save with autoSync on.
ConfirmAutoSync == \E b \in Backends : Save(b, TRUE)

\* ------------------------------------------------------ Mirror pass steps
\* History: a mutation of the local store by anyone but p disturbs the passes
\* that have read the tree, running or done.
Disturb(ps, p) ==
  [q \in Passes |->
     IF q # p /\ ps[q].pc \in {"create", "remove", "done"} THEN [ps[q] EXCEPT !.disturbed = TRUE]
     ELSE ps[q]]

\* The storage.sync.get callback runs, lines 6-7.
MirrorSettings(p) ==
  /\ pass[p].pc = "get"
  /\ pass' = [pass EXCEPT ![p] =
       IF MirrorReturnsEarly(settings)
       THEN [@ EXCEPT !.pc = "skipped", !.settings = settings]
       ELSE [@ EXCEPT !.pc = "fetch", !.settings = settings]]
  /\ UNCHANGED <<fw, req, boot, settings, remote, tree, nextId, syncIntervalId, timers, msgs, pull, push>>

\* An error of the fetch escaping the pass and taking the interval with it.
MirrorFetchUncaught(p) ==
  /\ pass[p].pc = "fetch"
  /\ \E c \in GetEnds, body \in Bodies :
       /\ pass' = [pass EXCEPT ![p] = Fetched(@, c, body, remote)]
       /\ IF Fetched(pass[p], c, body, remote).pc = "failed"
          THEN syncIntervalId' = 0 /\ timers' = {}
          ELSE UNCHANGED <<syncIntervalId, timers>>
  /\ UNCHANGED <<fw, req, boot, settings, remote, tree, nextId, msgs, pull, push>>

\* fetchWithRetry(GET /bookmarks/sync) settles, then res.json(), lines 24-29.
\* The attempts and waits of the call touch nothing shared, so the pass takes
\* them in one step; the collection is the one the last response carries.
MirrorFetch(p) ==
  /\ pass[p].pc = "fetch"
  /\ \E c \in GetEnds, body \in Bodies :
       pass' = [pass EXCEPT ![p] = Fetched(@, c, body, remote)]
  /\ UNCHANGED <<fw, req, boot, settings, remote, tree, nextId, syncIntervalId, timers, msgs, pull, push>>

\* chrome.bookmarks.getTree() resolves; traverseNodes, lines 31-47.
MirrorGetTree(p) ==
  /\ pass[p].pc = "getTree"
  /\ pass' = [pass EXCEPT ![p] = AfterCreate([@ EXCEPT !.nativeBookmarks = Flatten(tree)], 0)]
  /\ UNCHANGED <<fw, req, boot, settings, remote, tree, nextId, syncIntervalId, timers, msgs, pull, push>>

\* The awaited chrome.bookmarks.create settles, lines 50-57: it rejects a url
\* the store does not take, and the catch of line 68 ends the pass.
MirrorCreate(p) ==
  /\ pass[p].pc = "create"
  /\ nextId <= MaxNodeId
  /\ LET bm == pass[p].backendBookmarks[pass[p].i]
     IN IF ValidUrl(bm.url)
        THEN /\ tree' = CreateNode(tree, nextId, TitleOrUrl(bm), bm.url)
             /\ pass' = [Disturb(pass, p) EXCEPT ![p] =
                  AfterCreate([@ EXCEPT !.created = Append(@, [title |-> TitleOrUrl(bm), url |-> bm.url])],
                              pass[p].i)]
             /\ nextId' = nextId + 1
        ELSE /\ tree' = tree
             /\ pass' = [pass EXCEPT ![p].pc = "failed"]
             /\ nextId' = nextId
  /\ UNCHANGED <<fw, req, boot, settings, remote, syncIntervalId, timers, msgs, pull, push>>

\* The awaited chrome.bookmarks.remove settles, lines 60-65: it rejects when
\* the node is gone, and the catch of line 68 ends the pass.
MirrorRemove(p) ==
  /\ pass[p].pc = "remove"
  /\ LET node == pass[p].nativeBookmarks[pass[p].i]
     IN IF node.id \in DOMAIN tree
        THEN /\ tree' = RemoveNode(tree, node.id)
             /\ pass' = [Disturb(pass, p) EXCEPT ![p] =
                  AfterRemove([@ EXCEPT !.removed = Append(@, node.id)], pass[p].i)]
        ELSE /\ tree' = tree
             /\ pass' = [pass EXCEPT ![p].pc = "failed"]
  /\ UNCHANGED <<fw, req, boot, settings, remote, nextId, syncIntervalId, timers, msgs, pull, push>>

\* The next step of invocation p.
PassStep(p) ==
  \/ MirrorSettings(p)
  \/ MirrorFetch(p)
  \/ MirrorGetTree(p)
  \/ MirrorCreate(p)
  \/ MirrorRemove(p)

MirrorStep == \E p \in Passes : PassStep(p)

\* ------------------------------------------------------- Pull-Merge steps
\* syncToNativeBtn click, line 202: the handler starts and awaits getSettings.
\* The button is disabled while a run is under way.
PullClick ==
  /\ pull.pc \in PullEnds \cup {"idle"}
  /\ pull' = [IdlePull EXCEPT !.pc = "get", !.startTree = tree,
                               !.after = (pull.after \/ PullCompleted(pull))]
  /\ UNCHANGED <<fw, req, boot, settings, remote, tree, nextId, syncIntervalId, timers, msgs, pass, push>>

\* getSettings resolves, lines 203-207.
PullSettings ==
  /\ pull.pc = "get"
  /\ pull' = IF getSettings(settings).backendUrl = ""
             THEN [pull EXCEPT !.pc = "nourl", !.settings = getSettings(settings)]
             ELSE [pull EXCEPT !.pc = "fetch", !.settings = getSettings(settings)]
  /\ UNCHANGED <<fw, req, boot, settings, remote, tree, nextId, syncIntervalId, timers, msgs, pass, push>>

\* fetchWithRetry(GET /bookmarks/sync) settles, then res.json(), lines 218-228.
PullFetch ==
  /\ pull.pc = "fetch"
  /\ \E c \in GetEnds, body \in Bodies : pull' = PullFetched(pull, c, body, remote)
  /\ UNCHANGED <<fw, req, boot, settings, remote, tree, nextId, syncIntervalId, timers, msgs, pass, push>>

\* chrome.bookmarks.getTree() resolves; traverseNodes, lines 230-243.
PullGetTree ==
  /\ pull.pc = "getTree"
  /\ pull' = PullAfterCreate([pull EXCEPT !.nativeUrls = LeafUrls(tree)], 0)
  /\ UNCHANGED <<fw, req, boot, settings, remote, tree, nextId, syncIntervalId, timers, msgs, pass, push>>

\* The awaited chrome.bookmarks.create settles, lines 246-254: it rejects a
\* url the store does not take, and the catch of line 258 ends the run.
PullCreate ==
  /\ pull.pc = "create"
  /\ nextId <= MaxNodeId
  /\ LET bm == pull.backendBookmarks[pull.i]
     IN IF ValidUrl(bm.url)
        THEN /\ tree' = CreateNode(tree, nextId, PullTitle(bm), bm.url)
             /\ pull' = PullAfterCreate(
                          [pull EXCEPT !.created = Append(@, [title |-> PullTitle(bm), url |-> bm.url]),
                                       !.addCount = @ + 1],
                          pull.i)
             /\ nextId' = nextId + 1
             /\ pass' = Disturb(pass, 0)
        ELSE /\ tree' = tree
             /\ pull' = [pull EXCEPT !.pc = "failed"]
             /\ nextId' = nextId
             /\ pass' = pass
  /\ UNCHANGED <<fw, req, boot, settings, remote, syncIntervalId, timers, msgs, push>>

PullStep == PullSettings \/ PullFetch \/ PullGetTree \/ PullCreate

\* ------------------------------------------------------------- Push steps
\* importBookmarksBtn click, line 129: the handler starts and awaits getSettings.
PushClick ==
  /\ push.pc \in PushEnds \cup {"idle"}
  /\ push' = [IdlePush EXCEPT !.pc = "get"]
  /\ UNCHANGED <<fw, req, boot, settings, remote, tree, nextId, syncIntervalId, timers, msgs, pass, pull>>

\* getSettings resolves, lines 130-134.
PushSettings ==
  /\ push.pc = "get"
  /\ push' = IF getSettings(settings).backendUrl = ""
             THEN [push EXCEPT !.pc = "nourl", !.settings = getSettings(settings)]
             ELSE [push EXCEPT !.pc = "getTree", !.settings = getSettings(settings)]
  /\ UNCHANGED <<fw, req, boot, settings, remote, tree, nextId, syncIntervalId, timers, msgs, pass, pull>>

\* chrome.bookmarks.getTree() resolves; traverseNodes, lines 145-163.
PushGetTree ==
  /\ push.pc = "getTree"
  /\ push' = PushFlattened(push, tree)
  /\ UNCHANGED <<fw, req, boot, settings, remote, tree, nextId, syncIntervalId, timers, msgs, pass, pull>>

\* The import moving each leaf it has uploaded out of the local store.
PushPostMovesLeaf ==
  /\ push.pc = "post"
  /\ \E c \in PostEnds :
       LET bm == push.flatBookmarks[push.i]
           sent == [url |-> bm.url, title |-> bm.title, tags |-> currentTags,
                    method |-> "POST", state |-> c.state,
                    status |-> IF c.state = "returned" THEN c.res.status ELSE c.error.status]
           held == {n \in DOMAIN tree : tree[n].url = bm.url}
       IN /\ push' = PushCounted([push EXCEPT !.posts = Append(@, sent)], c)
          /\ tree' = IF c.state = "returned" /\ held # {}
                     THEN RemoveNode(tree, CHOOSE n \in held : TRUE)
                     ELSE tree
  /\ UNCHANGED <<fw, req, boot, settings, remote, nextId, syncIntervalId, timers, msgs, pass, pull>>

\* fetchWithRetry(POST /bookmarks) for flatBookmarks[i] settles, lines 169-188.
\* The upsert as sent, and how it ended, is appended to the history.
PushPost ==
  /\ push.pc = "post"
  /\ \E c \in PostEnds :
       LET bm == push.flatBookmarks[push.i]
           sent == [url |-> bm.url, title |-> bm.title, tags |-> currentTags,
                    method |-> "POST", state |-> c.state,
                    status |-> IF c.state = "returned" THEN c.res.status ELSE c.error.status]
       IN push' = PushCounted([push EXCEPT !.posts = Append(@, sent)], c)
  /\ UNCHANGED <<fw, req, boot, settings, remote, tree, nextId, syncIntervalId, timers, msgs, pass, pull>>

PushStep == PushSettings \/ PushGetTree \/ PushPost

\* ------------------------------------------------------------ specification
\* The background script with the options page's settings handlers, started
\* as installed (nothing configured, scheduler stopped) on one of the
\* scenarios: the remote collection and the leaves of the local tree.
Scenarios ==
  { [remote |-> <<Record("http://x"), Record("http://y")>>, local |-> <<"http://y", "http://z">>],
    [remote |-> <<>>, local |-> <<"http://y", "http://z">>],
    [remote |-> <<Record("http://x"), Record("http://x")>>, local |-> <<"http://z">>],
    [remote |-> <<Record("http://x"), Record("not a url")>>, local |-> <<"http://z">>] }

Init ==
  /\ fw = NoCall
  /\ settings = NoSettings
  /\ \E sc \in Scenarios :
       /\ remote = sc.remote
       /\ tree = InitTree(sc.local)
       /\ nextId = FirstLeafId + Len(sc.local)
  /\ syncIntervalId = 0
  /\ timers = {}
  /\ msgs = <<>>
  /\ boot = {}
  /\ req = NoRequest
  /\ pass = [p \in Passes |-> IdlePass]
  /\ pull = IdlePull
  /\ push = IdlePush

Next ==
  \/ SaveSettings
  \/ ConfirmAutoSync
  \/ DeliverMessage
  \/ Tick
  \/ MirrorStep

Spec == Init /\ [][Next]_vars

\* ------------------------------------------------- the scheduler
\* The background script freshly loaded on the scenario of the specification,
\* with whatever settings an earlier session persisted: the lifecycle events,
\* the options page's saves and their messages, the ticks and the passes.
InitSched ==
  /\ fw = NoCall
  /\ settings \in {[backendUrl |-> b, autoSync |-> a] : b \in Backends, a \in BOOLEAN}
  /\ remote = <<Record("http://x"), Record("http://y")>>
  /\ tree = InitTree(<<"http://y", "http://z">>)
  /\ nextId = FirstLeafId + 2
  /\ syncIntervalId = 0
  /\ timers = {}
  /\ msgs = <<>>
  /\ boot = {}
  /\ req = NoRequest
  /\ pass = [p \in Passes |-> IdlePass]
  /\ pull = IdlePull
  /\ push = IdlePush

NextSched ==
  \/ onInstalled
  \/ onStartup
  \/ InstalledRead
  \/ StartupRead
  \/ InstalledCallback
  \/ StartupCallback
  \/ SaveSettings
  \/ ConfirmAutoSync
  \/ DeliverMessage
  \/ Tick
  \/ MirrorStep

SpecSched == InitSched /\ [][NextSched]_vars


\* ------------------------------------------------- serial Mirror passes
\* The scheduler Running with auto-sync configured, on every remote collection
\* and local tree within the bounds, its ticks far enough apart that no pass
\* starts before the last one has ended.
InitSerial ==
  /\ fw = NoCall
  /\ settings = [backendUrl |-> "http://backend", autoSync |-> TRUE]
  /\ remote \in SeqsUpTo({Record(u) : u \in RemoteUrls}, MaxRemote)
  /\ \E ls \in SeqsUpTo(LocalUrls, MaxLocal) :
       /\ tree = InitTree(ls)
       /\ nextId = FirstLeafId + Len(ls)
  /\ syncIntervalId = 1
  /\ timers = {1}
  /\ msgs = <<>>
  /\ boot = {}
  /\ req = NoRequest
  /\ pass = [p \in Passes |-> IdlePass]
  /\ pull = IdlePull
  /\ push = IdlePush

TickAlone ==
  /\ \A p \in Passes : PassFree(pass[p])
  /\ Tick

NextSerial == TickAlone \/ MirrorStep

SpecSerial == InitSerial /\ [][NextSerial]_vars

\* ------------------------------------------------- the options page's runs
\* Every remote collection and local tree within the bounds, with and without
\* a backend configured, the scheduler stopped.
InitOptions ==
  /\ fw = NoCall
  /\ settings \in {[backendUrl |-> b, autoSync |-> FALSE] : b \in Backends}
  /\ remote \in SeqsUpTo({Record(u) : u \in RemoteUrls}, MaxRemote)
  /\ \E ls \in SeqsUpTo(LocalUrls, MaxLocal) :
       /\ tree = InitTree(ls)
       /\ nextId = FirstLeafId + Len(ls)
  /\ syncIntervalId = 0
  /\ timers = {}
  /\ msgs = <<>>
  /\ boot = {}
  /\ req = NoRequest
  /\ pass = [p \in Passes |-> IdlePass]
  /\ pull = IdlePull
  /\ push = IdlePush

\* Pull-Merge runs, one after another.
NextPull == PullClick \/ PullStep

SpecPull == InitOptions /\ [][NextPull]_vars

\* Push runs, one after another.
NextPush == PushClick \/ PushStep

SpecPush == InitOptions /\ [][NextPush]_vars

\* ------------------------------------------------- all three policies
\* The background script and both options-page runs on the scenario of the
\* specification, the settings saved and saved again under them.  A tick, a
\* click or a message comes when no run is under way.
InitConfig ==
  /\ fw = NoCall
  /\ settings = NoSettings
  /\ remote = <<Record("http://x"), Record("http://y")>>
  /\ tree = InitTree(<<"http://y", "http://z">>)
  /\ nextId = FirstLeafId + 2
  /\ syncIntervalId = 0
  /\ timers = {}
  /\ msgs = <<>>
  /\ boot = {}
  /\ req = NoRequest
  /\ pass = [p \in Passes |-> IdlePass]
  /\ pull = IdlePull
  /\ push = IdlePush

Resting ==
  /\ \A p \in Passes : PassFree(pass[p])
  /\ pull.pc \in PullEnds \cup {"idle"}
  /\ push.pc \in PushEnds \cup {"idle"}

TickResting == Resting /\ Tick
DeliverResting == Resting /\ DeliverMessage
PullClickResting == Resting /\ PullClick
PushClickResting == Resting /\ PushClick

NextConfig ==
  \/ SaveSettings
  \/ ConfirmAutoSync
  \/ DeliverResting
  \/ TickResting
  \/ MirrorStep
  \/ PullClickResting
  \/ PullStep
  \/ PushClickResting
  \/ PushStep

SpecConfig == InitConfig /\ [][NextConfig]_vars

\* ------------------------------------------------- stopping under passes
\* The background script as installed on the scenario of the specification,
\* with the options page's saves: auto-sync switched on and off under passes.
SpecStop == InitConfig /\ [][Next]_vars

\* Every await of a pass under way settles.
SpecStopLive == SpecStop /\ \A p \in Passes : WF_vars(PassStep(p))

\* ------------------------------------------------- a steady Running scheduler
\* The scheduler Running with auto-sync configured and nothing else at work:
\* no save, no message, no options-page run, the remote collection fixed.
\* The ticks come whenever they come, passes overlapping as the source lets
\* them.
InitSteady ==
  /\ fw = NoCall
  /\ settings = [backendUrl |-> "http://backend", autoSync |-> TRUE]
  /\ \E sc \in Scenarios :
       /\ \A j, k \in 1..Len(sc.remote) :
            ValidUrl(sc.remote[j].url) /\ (sc.remote[j].url = sc.remote[k].url => j = k)
       /\ remote = sc.remote
       /\ tree = InitTree(sc.local)
       /\ nextId = FirstLeafId + Len(sc.local)
  /\ syncIntervalId = 1
  /\ timers = {1}
  /\ msgs = <<>>
  /\ boot = {}
  /\ req = NoRequest
  /\ pass = [p \in Passes |-> IdlePass]
  /\ pull = IdlePull
  /\ push = IdlePush

NextSteady == Tick \/ MirrorStep

SpecSteady == InitSteady /\ [][NextSteady]_vars

\* The fetch of pass p answered with the collection.
FetchSucceeds(p) == MirrorFetch(p) /\ pass'[p].pc = "getTree"

\* The interval keeps firing, every await of a pass settles, and fetches
\* that keep being made do not fail for ever.
SpecSteadyLive ==
  /\ SpecSteady
  /\ WF_vars(Tick)
  /\ \A p \in Passes : WF_vars(PassStep(p)) /\ SF_vars(FetchSucceeds(p))

\* ================================================================== claims
\* C1: a fetchWithRetry call whose response status is in [400,500) and not 429
\* fails at once, after that one attempt: it never goes on to a backoff wait
\* or another attempt, whatever retries remain.
C1_ClientErrorFailsAtOnce ==
  fw.error.msg = "Client error" => fw.state = "threw"

\* C2: at most one Mirror pass is in flight (between its settings read and its
\* last local create/remove) in every reachable state.
InFlight == {p \in Passes : PassInFlight(pass[p])}
C2_PassesSerialized == Cardinality(InFlight) <= 1

\* C3: a Mirror pass whose fetch of /bookmarks/sync failed (fetchWithRetry
\* threw: client error, exhausted retries or transport error) ends in the
\* catch having read no tree and issued no local create and no local remove.
C3_MirrorFailClosed ==
  \A p \in Passes :
    pass[p].call.state = "threw" =>
      /\ pass[p].pc = "failed"
      /\ pass[p].nativeBookmarks = <<>>
      /\ pass[p].created = <<>>
      /\ pass[p].removed = <<>>

\* A pass failed on a transport error while the local tree holds leaves the
\* remote collection lacks.
C3_Witness ==
  \E p \in Passes :
    /\ pass[p].pc = "failed"
    /\ pass[p].call.state = "threw"
    /\ pass[p].call.error.msg = "TypeError"
    /\ LeafUrls(tree) \ UrlsOf(remote) # {}

\* C4: a Mirror pass creates exactly the remote records whose url no leaf of
\* the tree it read carries, in collection order, and removes exactly the
\* leaves it read whose url the collection lacks, in flattened order; a url on
\* both sides is neither created nor removed.  While the pass runs, what it has
\* created and removed so far is a prefix of that plan; once it is done the
\* tree holds the leaves it kept, untouched, followed by the leaves it created.
PlanCreate(R, L) == SelectSeq(R, LAMBDA bm : \A k \in 1..Len(L) : L[k].url # bm.url)
PlanRemove(R, L) == SelectSeq(L, LAMBDA n : \A k \in 1..Len(R) : R[k].url # n.url)
PlanKeep(R, L) == SelectSeq(L, LAMBDA n : \E k \in 1..Len(R) : R[k].url = n.url)
IsPrefix(a, b) == Len(a) <= Len(b) /\ \A k \in 1..Len(a) : a[k] = b[k]
UrlSeq(s) == [k \in 1..Len(s) |-> s[k].url]
IdSeq(s) == [k \in 1..Len(s) |-> s[k].id]

C4_MirrorPlan ==
  \A p \in Passes :
    LET R == pass[p].backendBookmarks
        L == pass[p].nativeBookmarks
    IN /\ IsPrefix(UrlSeq(pass[p].created), UrlSeq(PlanCreate(R, L)))
       /\ IsPrefix(pass[p].removed, IdSeq(PlanRemove(R, L)))
       /\ pass[p].removed # <<>> => Len(pass[p].created) = Len(PlanCreate(R, L))
       /\ pass[p].pc = "done" =>
            /\ UrlSeq(pass[p].created) = UrlSeq(PlanCreate(R, L))
            /\ pass[p].removed = IdSeq(PlanRemove(R, L))
            /\ \E fresh \in SeqsUpTo(DOMAIN tree \ {L[k].id : k \in 1..Len(L)}, Len(pass[p].created)) :
                 /\ Len(fresh) = Len(pass[p].created)
                 /\ Flatten(tree) =
                      PlanKeep(R, L)
                      \o [k \in 1..Len(fresh) |->
                            [id |-> fresh[k], url |-> pass[p].created[k].url,
                             title |-> pass[p].created[k].title]]

\* The scenario of the specification: remote {x, y}, local {y, z}; the pass
\* created x, removed the leaf of z and left the leaf of y.
C4_Witness ==
  \E p \in Passes :
    /\ pass[p].pc = "done"
    /\ UrlSeq(pass[p].backendBookmarks) = <<"http://x", "http://y">>
    /\ UrlSeq(pass[p].nativeBookmarks) = <<"http://y", "http://z">>
    /\ UrlSeq(pass[p].created) = <<"http://x">>
    /\ Len(pass[p].removed) = 1
    /\ UrlSeq(Flatten(tree)) = <<"http://y", "http://x">>

\* C5: when a Mirror pass has completed without error and no one else has
\* mutated the local store since the pass read the tree, the urls of the
\* local leaves are exactly the urls of the collection the pass fetched.
C5_MirrorExactCopy ==
  \A p \in Passes :
    (pass[p].pc = "done" /\ ~pass[p].disturbed) =>
      LeafUrls(tree) = UrlsOf(pass[p].backendBookmarks)

\* An undisturbed pass completed after creating and removing.
C5_Witness ==
  \E p \in Passes :
    /\ pass[p].pc = "done"
    /\ ~pass[p].disturbed
    /\ pass[p].created # <<>>
    /\ pass[p].removed # <<>>

\* C6: a Mirror pass that read autoSync not true from the persisted settings
\* returned at once: no network call, no tree read, no local create or remove.
C6_MirrorRechecksAutoSync ==
  \A p \in Passes :
    (pass[p].pc \notin {"idle", "get"} /\ ~pass[p].settings.autoSync) =>
      /\ pass[p].pc = "skipped"
      /\ pass[p].call.state = "none"
      /\ pass[p].nativeBookmarks = <<>>
      /\ pass[p].created = <<>>
      /\ pass[p].removed = <<>>

\* A tick of the still registered interval ran a pass after autoSync had been
\* saved false with a backend configured; the pass returned at line 7.
C6_Witness ==
  \E p \in Passes :
    /\ pass[p].pc = "skipped"
    /\ ~pass[p].settings.autoSync
    /\ pass[p].settings.backendUrl # ""
    /\ syncIntervalId # 0

\* C7: a Pull-Merge run begun after an earlier run had completed, the remote
\* collection unchanged and nothing else mutating the local store, creates
\* nothing: the local tree stays the tree the run began with.
C7_PullMergeIdempotent ==
  pull.after => (pull.created = <<>> /\ tree = pull.startTree)

\* A second run is done on a tree that holds a leaf the first run created.
C7_Witness ==
  /\ pull.after
  /\ pull.pc = "done"
  /\ "http://x" \in LeafUrls(tree)
  /\ "http://x" \in UrlsOf(pull.backendBookmarks)

\* C8: a Pull-Merge run removes and changes no node that existed when it
\* began (the only change to an old node is "Other bookmarks" gaining
\* children at its end); once done it has created one leaf for each remote
\* record whose url no leaf carried, titled with the remote title or, when
\* that is empty, with the url, and none for a record whose url was present.
ExpectedTitle(bm) == IF bm.title = "" THEN bm.url ELSE bm.title
ExpectedLeaves(R, L) ==
  [k \in 1..Len(PlanCreate(R, L)) |->
     [title |-> ExpectedTitle(PlanCreate(R, L)[k]), url |-> PlanCreate(R, L)[k].url]]
TitleUrlSeq(s) == [k \in 1..Len(s) |-> [title |-> s[k].title, url |-> s[k].url]]

C8_PullMergeNonDestructive ==
  pull.pc # "idle" =>
    /\ \A id \in DOMAIN pull.startTree :
         /\ id \in DOMAIN tree
         /\ tree[id].url = pull.startTree[id].url
         /\ tree[id].title = pull.startTree[id].title
         /\ tree[id].folder = pull.startTree[id].folder
         /\ IsPrefix(pull.startTree[id].children, tree[id].children)
         /\ id # OtherId => tree[id].children = pull.startTree[id].children
    /\ IsPrefix(Flatten(pull.startTree), Flatten(tree))
    /\ Len(Flatten(tree)) = Len(Flatten(pull.startTree)) + Len(pull.created)
    /\ pull.pc = "done" =>
         /\ pull.created = ExpectedLeaves(pull.backendBookmarks, Flatten(pull.startTree))
         /\ TitleUrlSeq(Flatten(tree)) = TitleUrlSeq(Flatten(pull.startTree)) \o pull.created
         /\ pull.addCount = Len(pull.created)

\* Remote {x, y}, local {y, z}: the run created x under its remote title and
\* nothing for y; remote record y has no title and is created under its url
\* when the tree lacks it.
C8_Witness ==
  /\ pull.pc = "done"
  /\ UrlSeq(Flatten(pull.startTree)) = <<"http://z">>
  /\ pull.created = <<[title |-> "X", url |-> "http://x"], [title |-> "http://y", url |-> "http://y"]>>
  /\ UrlSeq(Flatten(tree)) = <<"http://z", "http://x", "http://y">>

\* C9: Push issues one upsert (POST /bookmarks, tags ["imported"]) per local
\* leaf in flattened order; an upsert that fails is counted in failCount and
\* the loop goes on; every upsert is counted once, so on completion
\* successCount + failCount is the number of local leaves.
Succeeded(posts) == {k \in 1..Len(posts) : posts[k].state = "returned" /\ posts[k].status \in 200..299}

C9_PushPartialFailure ==
  /\ push.successCount = Cardinality(Succeeded(push.posts))
  /\ push.failCount = Len(push.posts) - Cardinality(Succeeded(push.posts))
  /\ Len(push.posts) <= Len(Flatten(tree))
  /\ \A k \in 1..Len(push.posts) :
       /\ push.posts[k].url = Flatten(tree)[k].url
       /\ push.posts[k].title = Flatten(tree)[k].title
       /\ push.posts[k].tags = <<"imported">>
       /\ push.posts[k].method = "POST"
  /\ push.pc = "post" => push.i = Len(push.posts) + 1
  /\ push.pc = "done" =>
       /\ Len(push.posts) = Len(Flatten(tree))
       /\ push.successCount + push.failCount = Len(Flatten(tree))

\* Two leaves: the first upsert ended with a 500 after its retries, the
\* second with a 201; the run reports success 1, fail 1.
C9_Witness ==
  /\ push.pc = "done"
  /\ Len(push.posts) = 2
  /\ push.posts[1].state = "threw" /\ push.posts[1].status = 500
  /\ push.posts[2].state = "returned" /\ push.posts[2].status = 201
  /\ push.successCount = 1
  /\ push.failCount = 1

\* C10: a policy run that read an unset or empty backendUrl from the persisted
\* settings aborted there: Mirror returned at line 7, Push and Pull-Merge at
\* their "set the backend URL first" message, with no network call, no tree
\* read, no local create and no local remove.
C10_NoBackendNoAction ==
  /\ \A p \in Passes :
       (pass[p].pc \notin {"idle", "get"} /\ pass[p].settings.backendUrl = "") =>
         /\ pass[p].pc = "skipped"
         /\ pass[p].call.state = "none"
         /\ pass[p].nativeBookmarks = <<>>
         /\ pass[p].created = <<>>
         /\ pass[p].removed = <<>>
  /\ (pull.pc \notin {"idle", "get"} /\ pull.settings.backendUrl = "") =>
       /\ pull.pc = "nourl"
       /\ pull.call.state = "none"
       /\ pull.created = <<>>
       /\ pull.nativeUrls = {}
  /\ (push.pc \notin {"idle", "get"} /\ push.settings.backendUrl = "") =>
       /\ push.pc = "nourl"
       /\ push.flatBookmarks = <<>>
       /\ push.posts = <<>>

\* With autoSync on and no backend saved, a Mirror pass, a Pull-Merge run and
\* a Push run have all three aborted, the local tree holding leaves.
C10_Witness ==
  /\ \E p \in Passes :
       /\ pass[p].pc = "skipped"
       /\ pass[p].settings.autoSync
       /\ pass[p].settings.backendUrl = ""
  /\ pull.pc = "nourl"
  /\ push.pc = "nourl"
  /\ LeafUrls(tree) # {}
\* C11: a fetchWithRetry call given retries = n makes at most n + 1 fetches;
\* while retries remain a failed fetch is followed by a wait and another
\* fetch, never by a throw; the call throws only with no retries left, after
\* n + 1 fetches, and the error it throws is the error of its last fetch; a
\* call that returns returns the ok (2xx) response of its last fetch; and,
\* every fetch settling and every timer firing, the call comes to return or throw.
LastSeen(c) == c.seen[Len(c.seen)]

C11_BudgetKept ==
  /\ fw.attempts = Len(fw.seen)
  /\ fw.attempts <= fw.args.retries + 1
  /\ fw.retries + Len(fw.waits) = fw.args.retries
  /\ fw.state = "waiting" => (fw.retries > 0 /\ ~LastSeen(fw).ok)
  /\ fw.state = "threw" =>
       /\ fw.retries = 0
       /\ fw.attempts = fw.args.retries + 1
       /\ \A k \in 1..Len(fw.seen) : ~fw.seen[k].ok
       /\ fw.error.status = LastSeen(fw).status
       /\ fw.error.msg = (IF LastSeen(fw).kind = "reject" THEN "TypeError"
                          ELSE IF LastSeen(fw).status \in (400..499) \ {429} THEN "Client error"
                          ELSE "Server returned")
  /\ fw.state = "returned" =>
       /\ fw.res = LastSeen(fw)
       /\ fw.res.kind = "response"
       /\ fw.res.status \in 200..299

C11_RetryBudget == []C11_BudgetKept /\ <>[](fw.state \in {"returned", "threw"})

\* A call given three retries threw the 503 of its fourth fetch after a
\* transport error, a 429 and a 500.
C11_Witness ==
  /\ fw.state = "threw"
  /\ fw.args.retries = 3
  /\ [k \in 1..Len(fw.seen) |-> fw.seen[k].status] = <<0, 429, 500, 503>>
  /\ fw.error = [msg |-> "Server returned", status |-> 503]

\* C12: a call with the default arguments whose first two fetches answer 503
\* and whose third answers 2xx has by then made exactly three fetches, waited
\* 1000 ms then 2000 ms (3000 ms in all), and returned the third response; it
\* has not thrown on the way.
StatusSeq(c) == [k \in 1..Len(c.seen) |-> c.seen[k].status]
RECURSIVE SumSeq(_)
SumSeq(w) == IF w = <<>> THEN 0 ELSE Head(w) + SumSeq(Tail(w))

C12_RetryThenSuccess ==
  (fw.args = [retries |-> 3, backoff |-> 1000]) =>
    /\ StatusSeq(fw) \in {<<503>>, <<503, 503>>} => fw.state \in {"waiting", "pending"}
    /\ (Len(fw.seen) = 3 /\ StatusSeq(fw)[1] = 503 /\ StatusSeq(fw)[2] = 503
          /\ StatusSeq(fw)[3] \in 200..299) =>
         /\ fw.state = "returned"
         /\ fw.attempts = 3
         /\ fw.waits = <<1000, 2000>>
         /\ SumSeq(fw.waits) >= 3000
         /\ fw.res = fw.seen[3]

\* The default call has returned the 200 of its third fetch after two 503s.
C12_Witness ==
  /\ fw.args = [retries |-> DefaultRetries, backoff |-> DefaultBackoff]
  /\ fw.state = "returned"
  /\ StatusSeq(fw) = <<503, 503, 200>>
  /\ fw.res = Response(200)
\* C13: in every reachable state at most one interval is registered, and
\* syncIntervalId is non-null exactly when one is: it then names that
\* interval.  A startSync that finds an interval registered has cleared it
\* before registering its own.
C13_SingleTimer ==
  /\ Cardinality(timers) <= 1
  /\ (syncIntervalId # 0) <=> (timers # {})
  /\ syncIntervalId # 0 => timers = {syncIntervalId}

\* startSync ran while Running: its interval (the second id handed out) is
\* the only one registered and a message to stop is still on its way.
C13_Witness ==
  /\ syncIntervalId = 2
  /\ timers = {2}
  /\ msgs = <<FALSE>>

\* The invocations a step makes: the slots it takes from free to "get".
NewlyInvoked == {p \in Passes : PassFree(pass[p]) /\ pass'[p].pc = "get"}

\* A step in which startSync ran: a new interval handle is stored.
StartRan == syncIntervalId' # 0 /\ syncIntervalId' # syncIntervalId

\* C14: every startSync, from Stopped (syncIntervalId null) and from Running,
\* leaves the scheduler Running with its new interval registered (the one
\* whose ticks call performAutoSync) and has called performAutoSync once
\* itself, in the same step, without waiting for a tick.
C14_StartSyncsNow ==
  [][StartRan =>
       /\ syncIntervalId' \in timers'
       /\ Cardinality(NewlyInvoked) = 1
       /\ \A p \in NewlyInvoked : pass'[p] = [IdlePass EXCEPT !.pc = "get"]
       /\ \A p \in Passes \ NewlyInvoked : pass'[p] = pass[p]]_vars

\* Two startSync calls in a row, the second from Running: each invoked a
\* pass at once, and both passes are still awaiting their settings.
C14_Witness ==
  /\ syncIntervalId = 2
  /\ timers = {2}
  /\ \A p \in Passes : p <= 2 => pass[p].pc = "get"

\* A step in which the onMessage listener took a message with autoSync false.
StopDelivered == msgs # <<>> /\ ~Head(msgs) /\ msgs' = Tail(msgs)

\* C15: stopSync leaves the scheduler Stopped whatever the state: the interval
\* it finds is cleared and syncIntervalId is null; when already Stopped it
\* changes nothing of the scheduler; and while the scheduler stays Stopped no
\* step invokes a pass.
C15_StopStops ==
  [][/\ StopDelivered =>
          /\ syncIntervalId' = 0
          /\ timers' = timers \ {syncIntervalId}
          /\ timers' = {}
          /\ syncIntervalId = 0 => UNCHANGED <<syncIntervalId, timers>>
          /\ NewlyInvoked = {}
     /\ (syncIntervalId = 0 /\ syncIntervalId' = 0) => NewlyInvoked = {}]_vars

\* stopSync ran while Running with a pass under way; the scheduler is Stopped.
C15_Witness ==
  /\ syncIntervalId = 0
  /\ timers = {}
  /\ ~settings.autoSync
  /\ \E p \in Passes : pass[p].stopped /\ pass[p].pc = "fetch"

\* C16: stopSync touches no pass under way; such a pass goes on, the awaits it
\* makes settling, until it ends, and it ends as the source has it end: done
\* with every create and remove of its plan issued, or in the catch for a
\* failed fetch, an unreadable body or a remove the store rejected, or at the
\* returns of lines 7 and 29.
EndedForCause(ps) ==
  \/ ps.pc = "skipped" /\ (~ps.settings.autoSync \/ ps.settings.backendUrl = "")
  \/ ps.pc = "nobody" /\ ps.call.state = "returned"
  \/ ps.pc = "done"
       /\ UrlSeq(ps.created) = UrlSeq(PlanCreate(ps.backendBookmarks, ps.nativeBookmarks))
       /\ ps.removed = IdSeq(PlanRemove(ps.backendBookmarks, ps.nativeBookmarks))
  \/ ps.pc = "failed" /\ ps.call.state = "threw"
  \/ ps.pc = "failed" /\ ps.call.state = "returned" /\ ps.nativeBookmarks = <<>>
  \/ ps.pc = "failed" /\ ps.i \in 1..Len(ps.nativeBookmarks)
       /\ ps.nativeBookmarks[ps.i].id \notin DOMAIN tree
  \/ ps.pc = "failed" /\ ps.i \in 1..Len(ps.backendBookmarks)
       /\ ~ValidUrl(ps.backendBookmarks[ps.i].url)

C16_StopLeavesPasses ==
  /\ [][StopDelivered =>
          \A p \in Passes :
            pass'[p] = [pass[p] EXCEPT !.stopped = (@ \/ ~PassFree(pass[p]))]]_vars
  /\ [](\A p \in Passes : (pass[p].stopped /\ pass[p].pc \in PassEnds) => EndedForCause(pass[p]))
  /\ \A p \in Passes :
       [](pass[p].stopped /\ ~PassFree(pass[p]) => <>(pass[p].pc \in PassEnds))

\* A pass that was awaiting its fetch or earlier when stopSync ran has since
\* fetched, created and removed, and is done, the scheduler still Stopped.
C16_Witness ==
  /\ syncIntervalId = 0
  /\ \E p \in Passes :
       /\ pass[p].stopped
       /\ pass[p].pc = "done"
       /\ pass[p].created # <<>>
       /\ pass[p].removed # <<>>
       /\ ~pass[p].disturbed

\* What startSync leaves behind: a new interval, the only one, and one pass invoked.
StartEffect ==
  /\ syncIntervalId' \notin {0, syncIntervalId}
  /\ timers' = {syncIntervalId'}
  /\ Cardinality(NewlyInvoked) = 1

\* C17: the onMessage listener calls startSync for a message with autoSync
\* true and stopSync for one with autoSync false; the storage callback of the
\* onInstalled and onStartup listeners calls startSync exactly when the
\* persisted autoSync is true and otherwise leaves the scheduler as it is
\* (Stopped, in a script just loaded); the listeners themselves only issue the
\* read; and the message a save sends carries the autoSync it persisted.
C17_Reconfiguration ==
  [][/\ (msgs # <<>> /\ msgs' = Tail(msgs)) =>
          IF Head(msgs) THEN StartEffect
          ELSE syncIntervalId' = 0 /\ timers' = {} /\ NewlyInvoked = {}
     /\ (boot' # boot /\ boot' \subseteq boot) =>
          \A b \in boot \ boot' :
            IF b.read = <<TRUE>> THEN StartEffect
            ELSE b.read = <<FALSE>> /\ UNCHANGED <<syncIntervalId, timers>> /\ NewlyInvoked = {}
     /\ (boot' # boot /\ ~(boot' \subseteq boot)) =>
          /\ UNCHANGED <<syncIntervalId, timers>> /\ NewlyInvoked = {}
          /\ \A b \in boot' \ boot : b.read \in {<<>>, <<settings.autoSync>>}
     /\ Len(msgs') > Len(msgs) => msgs' = Append(msgs, settings'.autoSync)]_vars

\* With autoSync persisted true and nothing saved since, the callback of one
\* lifecycle listener has started the scheduler; the other is still pending.
C17_Witness ==
  /\ settings.autoSync
  /\ syncIntervalId = 1
  /\ boot = {Issued("startup")}
  /\ msgs = <<>>
  /\ \E p \in Passes : pass[p].pc = "get"
\* C18: for every remote collection and local tree, the urls a Mirror pass
\* has asked the store to create and the urls of the leaves it has asked the
\* store to remove have no url in common, at every point of the pass.
CreatesIssued(ps) ==
  {ps.created[k].url : k \in 1..Len(ps.created)}
  \cup (IF ps.pc = "create" THEN {ps.backendBookmarks[ps.i].url} ELSE {})

RemovesIssued(ps) ==
  {ps.nativeBookmarks[k].url :
     k \in {j \in 1..Len(ps.nativeBookmarks) :
              \/ ps.nativeBookmarks[j].id \in {ps.removed[m] : m \in 1..Len(ps.removed)}
              \/ ps.pc = "remove" /\ j = ps.i}}

C18_PlanDisjoint ==
  \A p \in Passes : CreatesIssued(pass[p]) \cap RemovesIssued(pass[p]) = {}

\* Remote <<y, x>> against local <<z, y>>: the pass created x and removed the
\* leaf of z; y, on both sides, is in neither set.
C18_Witness ==
  \E p \in Passes :
    /\ pass[p].pc = "done"
    /\ UrlSeq(pass[p].backendBookmarks) = <<"http://y", "http://x">>
    /\ UrlSeq(pass[p].nativeBookmarks) = <<"http://z", "http://y">>
    /\ CreatesIssued(pass[p]) = {"http://x"}
    /\ RemovesIssued(pass[p]) = {"http://z"}
\* C19 as stated: every request carries Authorization equal to Bearer <apiKey>
\* and each configured extra header (each entry with a header name); a read
\* (GET) carries Accept: application/json and a write (POST, DELETE) carries
\* Content-Type: application/json.
Named(x) == {k \in 1..Len(x) : x[k].key # ""}
Carries(h, key, value) == key \in DOMAIN h /\ h[key] = value

LastNamed(x, key) ==
  LET at == {k \in Named(x) : x[k].key = key}
  IN x[CHOOSE k \in at : \A j \in at : j <= k].value
ExtraNames(x) == {x[k].key : k \in Named(x)}

HasReadTree(ps) == ps.pc \in {"create", "remove"}

RemovesOrWill(ps, id) ==
  \E k \in 1..Len(ps.nativeBookmarks) :
    /\ ps.nativeBookmarks[k].id = id
    /\ \A j \in 1..Len(ps.backendBookmarks) : ps.backendBookmarks[j].url # ps.nativeBookmarks[k].url
    /\ \/ ps.pc = "create"
       \/ ps.pc = "remove" /\ k >= ps.i
       \/ id \in {ps.removed[m] : m \in 1..Len(ps.removed)}

SharedDoomed(ps, qs) ==
  {ps.nativeBookmarks[k].id :
     k \in {j \in 1..Len(ps.nativeBookmarks) :
              /\ \E m \in 1..Len(qs.nativeBookmarks) : qs.nativeBookmarks[m] = ps.nativeBookmarks[j]
              /\ \A m \in 1..Len(ps.backendBookmarks) : ps.backendBookmarks[m].url # ps.nativeBookmarks[j].url
              /\ \A m \in 1..Len(qs.backendBookmarks) : qs.backendBookmarks[m].url # ps.nativeBookmarks[j].url}}

C20_OverlapInSource ==
  /\ ((\E p \in Passes : ~PassFree(pass[p])) /\ timers # {} /\ (\E p \in Passes : PassFree(pass[p])))
       => ENABLED Tick
  /\ \A p, q \in Passes :
       (p # q /\ HasReadTree(pass[p]) /\ HasReadTree(pass[q])) =>
         \A id \in SharedDoomed(pass[p], pass[q]) :
           RemovesOrWill(pass[p], id) /\ RemovesOrWill(pass[q], id)

\* Two passes read the tree <<y, z>> before either removed anything; one
\* has removed the leaf of z and is done, the other asked the store to remove
\* the same node, was refused, and ended in the catch, having created x too.
C20_Witness ==
  \E p, q \in Passes :
    /\ p # q
    /\ pass[p].pc = "done"
    /\ pass[q].pc = "failed"
    /\ pass[q].nativeBookmarks = pass[p].nativeBookmarks
    /\ pass[q].i \in 1..Len(pass[q].nativeBookmarks)
    /\ pass[q].nativeBookmarks[pass[q].i].id \in {pass[p].removed[m] : m \in 1..Len(pass[p].removed)}
    /\ pass[q].nativeBookmarks[pass[q].i].id \notin DOMAIN tree
    /\ pass[p].created # <<>>
    /\ pass[q].created # <<>>
\* C21: in a fetchWithRetry call given backoff b and retries n, the k-th wait
\* (k = 0, 1, ...) lasts b * 2^k; each wait leaves one retry fewer and the
\* backoff doubled; the waits of the defaults are 1000, 2000, 4000; and the
\* waits of one call sum to at most b * (2^n - 1), 7000 ms for the defaults.
C21_BackoffArithmetic ==
  /\ \A k \in 1..Len(fw.waits) : fw.waits[k] = fw.args.backoff * 2^(k - 1)
  /\ fw.state # "none" =>
       /\ fw.retries = fw.args.retries - Len(fw.waits)
       /\ fw.backoff = fw.args.backoff * 2^Len(fw.waits)
       /\ Len(fw.waits) <= fw.args.retries
       /\ SumSeq(fw.waits) <= fw.args.backoff * (2^fw.args.retries - 1)
  /\ fw.args = [retries |-> 3, backoff |-> 1000] =>
       /\ fw.waits \in {<<>>, <<1000>>, <<1000, 2000>>, <<1000, 2000, 4000>>}
       /\ SumSeq(fw.waits) <= 7000

\* The default call has used all three retries: it waited 1000, 2000 and
\* 4000 ms, 7000 ms in all, and threw.
C21_Witness ==
  /\ fw.args = [retries |-> DefaultRetries, backoff |-> DefaultBackoff]
  /\ fw.state = "threw"
  /\ fw.waits = <<1000, 2000, 4000>>
  /\ SumSeq(fw.waits) = 7000
\* C22: within one Mirror pass the settings read precedes the remote fetch;
\* the fetch has completed successfully before the local tree is read and the
\* plan computed; no local create or remove precedes the plan; and every local
\* create of the pass precedes every local remove of the pass.
PassSuccessors(pc) ==
  CASE pc \in PassEnds \cup {"idle"} -> {"get"}
    [] pc = "get" -> {"skipped", "fetch"}
    [] pc = "fetch" -> {"failed", "nobody", "getTree"}
    [] pc = "getTree" -> {"create", "remove", "done"}
    [] pc = "create" -> {"create", "remove", "done", "failed"}
    [] pc = "remove" -> {"remove", "done", "failed"}

PassOrdered(ps) ==
  /\ ps.call.state # "none" => ps.pc \notin {"idle", "get", "skipped"} /\ ~MirrorReturnsEarly(ps.settings)
  /\ ps.pc \in {"getTree", "create", "remove", "done"} => ps.call.state = "returned" /\ ps.call.res.ok
  /\ ps.pc \in {"idle", "get", "skipped", "fetch", "nobody", "getTree"} =>
       ps.nativeBookmarks = <<>> /\ ps.created = <<>> /\ ps.removed = <<>>
  /\ ps.created # <<>> \/ ps.removed # <<>> => ps.call.state = "returned" /\ ps.call.res.ok
  /\ ps.pc = "create" => ps.removed = <<>>

PassStepOrdered(p) ==
  /\ pass'[p].pc # pass[p].pc => pass'[p].pc \in PassSuccessors(pass[p].pc)
  /\ pass'[p].created # pass[p].created /\ pass'[p].pc # "get" =>
       pass[p].pc = "create" /\ pass[p].removed = <<>>
  /\ pass'[p].removed # pass[p].removed /\ pass'[p].pc # "get" =>
       pass[p].pc = "remove" /\ pass'[p].created = pass[p].created
  /\ pass[p].removed # <<>> /\ pass'[p].pc # "get" => pass'[p].created = pass[p].created

C22_PassOrder ==
  /\ [](\A p \in Passes : PassOrdered(pass[p]))
  /\ [][/\ \A p \in Passes : PassStepOrdered(p)
        /\ tree' # tree => \E p \in Passes :
              /\ pass[p].pc \in {"create", "remove"}
              /\ pass'[p].created # pass[p].created \/ pass'[p].removed # pass[p].removed]_vars

\* A pass has read the settings, fetched, read the tree, created a leaf and
\* then removed one, and is done.
C22_Witness ==
  \E p \in Passes :
    /\ pass[p].pc = "done"
    /\ pass[p].call.state = "returned"
    /\ pass[p].created # <<>>
    /\ pass[p].removed # <<>>
\* C23: an error raised inside a Mirror pass (the fetch failing, the body not
\* being JSON, a local create or remove rejecting) ends that pass in its own
\* catch: the step leaves the timer handle, the registered intervals, the
\* other passes and the local store as they were, and while an interval is
\* registered a tick can still invoke a further pass.
PassFailsAt(p) == pass[p].pc # "failed" /\ pass'[p].pc = "failed"

C23_FailureContained ==
  /\ [][\A p \in Passes : PassFailsAt(p) =>
          /\ UNCHANGED <<syncIntervalId, timers, tree, settings, msgs>>
          /\ \A q \in Passes \ {p} : pass'[q] = pass[q]]_vars
  /\ []((\E p \in Passes : pass[p].pc = "failed") /\ timers # {} => ENABLED Tick)

\* The scheduler is Running with one pass ended by a create the store
\* rejected and another by a remove the store rejected.
C23_Witness ==
  /\ syncIntervalId # 0
  /\ syncIntervalId \in timers
  /\ \E p, q \in Passes :
       /\ pass[p].pc = "failed" /\ pass[p].created # <<>> /\ pass[p].i # 0
       /\ ~ValidUrl(pass[p].backendBookmarks[pass[p].i].url)
       /\ pass[q].pc = "failed" /\ pass[q].call.state = "threw"
\* C24: the local tree changes only in the create and remove steps of a Mirror
\* pass and the create steps of a Pull-Merge run.  A step of Push (whatever
\* its upserts come to), the settling of a fetchWithRetry call, and a start or
\* stop of the scheduler leave the tree as it was; and every request Push
\* issues is a POST, never a DELETE.
ApplyStep ==
  \/ \E p \in Passes :
       /\ pass[p].pc \in {"create", "remove"}
       /\ pass'[p].created # pass[p].created \/ pass'[p].removed # pass[p].removed
  \/ pull.pc = "create" /\ pull'.created # pull.created

FetchSettles ==
  \/ \E p \in Passes : pass[p].pc = "fetch" /\ pass'[p].call # pass[p].call
  \/ pull.pc = "fetch" /\ pull'.call # pull.call
  \/ push.pc = "post" /\ push'.posts # push.posts

C24_LocalStoreFrame ==
  /\ [][/\ tree' # tree \/ nextId' # nextId => ApplyStep
        /\ push' # push => tree' = tree /\ nextId' = nextId /\ remote' = remote
        /\ FetchSettles => tree' = tree /\ nextId' = nextId
        /\ syncIntervalId' # syncIntervalId \/ timers' # timers =>
             tree' = tree /\ nextId' = nextId]_vars
  /\ [](\A k \in 1..Len(push.posts) : push.posts[k].method = "POST")

\* The scheduler has been started and a Push has ended with an upsert that
\* succeeded and one that failed, the local tree still as it began.
C24_Witness ==
  /\ push.pc = "done"
  /\ push.successCount > 0
  /\ push.failCount > 0
  /\ syncIntervalId # 0
  /\ tree = InitTree(<<"http://y", "http://z">>)
\* C25: for every tree of leaves and folders the flattened sequence holds
\* exactly one entry for each leaf, with the leaf's id, url and title, and none
\* for a folder; its entries stand in depth-first pre-order, children in the
\* store's child order (the order of the leaves' paths from the root); and
\* reading and flattening the tree leaves the tree as it was.
Leaves(t) == {n \in DOMAIN t : ~t[n].folder}
IndexIn(s, x) == CHOOSE k \in 1..Len(s) : s[k] = x
ParentOf(t, id) == CHOOSE n \in DOMAIN t : \E k \in 1..Len(t[n].children) : t[n].children[k] = id

RECURSIVE PathOf(_, _)
PathOf(t, id) ==
  IF id = RootId THEN <<>>
  ELSE PathOf(t, ParentOf(t, id)) \o <<IndexIn(t[ParentOf(t, id)].children, id)>>

PathBefore(a, b) ==
  \E k \in 1..Len(a) :
    /\ k <= Len(b)
    /\ a[k] < b[k]
    /\ \A j \in 1..(k - 1) : a[j] = b[j]

FlattenedRight(t) ==
  LET f == Flatten(t)
  IN /\ Len(f) = Cardinality(Leaves(t))
     /\ \A n \in Leaves(t) : Cardinality({k \in 1..Len(f) : f[k].id = n}) = 1
     /\ \A k \in 1..Len(f) :
          /\ f[k].id \in Leaves(t)
          /\ f[k].url = t[f[k].id].url
          /\ f[k].title = t[f[k].id].title
     /\ \A j, k \in 1..Len(f) : j < k => PathBefore(PathOf(t, f[j].id), PathOf(t, f[k].id))

C25_TreeFlattening ==
  /\ [](FlattenedRight(tree))
  /\ [][\A p \in Passes : pass[p].pc = "getTree" /\ pass'[p].pc # "getTree" =>
          /\ tree' = tree
          /\ pass'[p].nativeBookmarks = Flatten(tree)
          /\ FlattenedRight(tree')]_vars

\* A pass has flattened a tree with a leaf in the inner folder, a leaf after
\* that folder in the bar and a leaf in "Other bookmarks": three entries, in
\* that order.
C25_Witness ==
  \E p \in Passes :
    /\ Len(pass[p].nativeBookmarks) = 3
    /\ pass[p].nativeBookmarks = Flatten(tree)
    /\ ParentOf(tree, pass[p].nativeBookmarks[1].id) = SubId
    /\ ParentOf(tree, pass[p].nativeBookmarks[2].id) = BarId
    /\ ParentOf(tree, pass[p].nativeBookmarks[3].id) = OtherId
\* C26: the local store began with no two leaves of one url and the remote
\* collection holds no two records of one url; after any interleaving of
\* Mirror passes the local store has no two leaves of one url.
NoTwoOfOneUrl(s) == \A j, k \in 1..Len(s) : s[j].url = s[k].url => j = k

C26_NoDuplicateLeaves ==
  NoTwoOfOneUrl(remote) => NoTwoOfOneUrl(Flatten(tree))
\* C27: in every reachable state in which no settings-change message and no
\* install/startup settings read is pending (the script just loaded still
\* has its lifecycle read to come), the scheduler is Running exactly when the
\* persisted autoSync is true; a stale lifecycle read whose callback runs
\* after a later stopSync never leaves the timer running with autoSync false.
NothingPending == msgs = <<>> /\ boot = {} /\ ~JustLoaded

C27_SchedulerFollowsSettings ==
  NothingPending => ((syncIntervalId # 0) <=> settings.autoSync)
\* C28: with the scheduler Running, autoSync and backendUrl set, the remote
\* collection fixed, nothing but Mirror passes touching the local store, the
\* interval firing fairly and fetches not failing for ever, the set of urls
\* of the local leaves eventually equals the set of urls of the remote
\* collection and stays equal to it from then on.
C28_Convergence == <>[](LeafUrls(tree) = UrlsOf(remote))

\* A pass that had a leaf to create and a leaf to remove is done and the two
\* url sets are equal, the scheduler still Running.
C28_Witness ==
  /\ LeafUrls(tree) = UrlsOf(remote)
  /\ syncIntervalId # 0
  /\ \E p \in Passes :
       /\ pass[p].pc = "done"
       /\ pass[p].created # <<>>
       /\ pass[p].removed # <<>>
====
